---- MODULE Spec2Model ----
(***************************************************************************)
(* A model of src/src/hafnian.hpp: the Cygan-Pilipczuk subset workers      *)
(* do_chunk / do_chunk_loops with their OpenMP reduction, the drivers      *)
(* hafnian / loop_hafnian / hafnian_int, and the recursive integer engine  *)
(* recursive_int.                                                          *)
(*                                                                         *)
(* Arrays keep the 0-based indices of the C++ source: an array of length   *)
(* L is a function with domain 0..L-1.  Values of the floating-point type  *)
(* T are modelled as exact rationals <<num, den>>.                         *)
(***************************************************************************)
EXTENDS Integers, Sequences, FiniteSets, TLC

(* ------------------------------ bounds -------------------------------- *)

\* largest half-order m of the matrices given to the drivers
MaxM == 3
\* largest number of OpenMP threads in a team
MaxThreads == 2
\* largest start index X and chunk size given to a chunk worker called directly
MaxChunk == 2

(* ---------------------------- arithmetic ------------------------------ *)

Abs(a) == IF a < 0 THEN -a ELSE a

\* the function f with every value computed once
Eager(f) == IF f = f THEN f ELSE f

RECURSIVE Gcd(_, _)
Gcd(a, b) == IF b = 0 THEN a ELSE Gcd(b, a % b)

\* the rational p/q in lowest terms, q > 0
QNorm(p, q) ==
    LET g == Gcd(Abs(p), Abs(q))
        s == IF q < 0 THEN -1 ELSE 1
    IN  <<(s * p) \div g, (s * q) \div g>>

Q(k) == <<k, 1>>

QAdd(a, b) ==
    LET g == Gcd(a[2], b[2])
        l == (a[2] \div g) * b[2]
    IN  QNorm(a[1] * (l \div a[2]) + b[1] * (l \div b[2]), l)

QNeg(a) == <<-a[1], a[2]>>

QMul(a, b) ==
    LET x == QNorm(a[1], b[2])
        y == QNorm(b[1], a[2])
    IN  <<x[1] * y[1], x[2] * y[2]>>

QDiv(a, k) == QMul(a, <<1, k>>)

\* sum of f[i] (integers) for i in lo..hi
RECURSIVE ISumRec(_, _, _)
ISumRec(f, lo, hi) == IF lo > hi THEN 0 ELSE f[lo] + ISumRec(f, lo + 1, hi)

ISum(f, lo, hi) == ISumRec(Eager(f), lo, hi)

\* sum of f[i] (rationals) for i in lo..hi
RECURSIVE QSumRec(_, _, _)
QSumRec(f, lo, hi) == IF lo > hi THEN Q(0) ELSE QAdd(f[lo], QSumRec(f, lo + 1, hi))

QSum(f, lo, hi) == QSumRec(Eager(f), lo, hi)

RECURSIVE Pow2(_)
Pow2(k) == IF k = 0 THEN 1 ELSE 2 * Pow2(k - 1)

(* ------------------- bit decoding and position list ------------------- *)

\* dec2bin: dst[idx] is bit (len-1-idx) of x, most significant bit first
dec2bin(x, len) == [idx \in 0 .. len - 1 |-> (x \div Pow2(len - 1 - idx)) % 2]

\* find2: the positions 2i, 2i+1 of every i with dst[i] = 1, in order
RECURSIVE find2(_, _, _)
find2(dst, len, i) ==
    IF i >= len THEN <<>>
    ELSE (IF dst[i] = 1 THEN <<2 * i, 2 * i + 1>> ELSE <<>>) \o find2(dst, len, i + 1)

\* pos as the 0-based array the workers index
PosOf(x, m) ==
    LET p == find2(dec2bin(x, m), m, 0)
    IN  [i \in 0 .. Len(p) - 1 |-> p[i + 1]]

\* number of entries find2 wrote: the return value 2*j
SumOf(pos) == Cardinality(DOMAIN pos)

\* p ^ 1 on a row index
Xor1(p) == IF p % 2 = 0 THEN p + 1 ELSE p - 1

\* B[i*sum+j] = mat[pos[i]*n + (pos[j]^1)]
ReducedB(mat, n, pos) ==
    LET sum == SumOf(pos)
    IN  [q \in 0 .. sum * sum - 1 |->
            mat[pos[q \div sum] * n + Xor1(pos[q % sum])]]

(* ----------------------------- powtrace ------------------------------- *)

\* the matrix Eigen maps onto the flat buffer z: column-major, A[r][c] = z[c*n+r]
EigenMap(z, n) == Eager([r \in 0 .. n - 1, c \in 0 .. n - 1 |-> z[c * n + r]])

MatMul(P, A, n) == Eager(
    [r \in 0 .. n - 1, c \in 0 .. n - 1 |->
        ISum([l \in 0 .. n - 1 |-> P[r, l] * A[l, c]], 0, n - 1)])

Trace(P, n) == ISum([r \in 0 .. n - 1 |-> P[r, r]], 0, n - 1)

\* traces[i] for i = from..l-1 given P = A^(from+1): the sum of the
\* (from+1)-th powers of the eigenvalues of A is tr(A^(from+1))
RECURSIVE TracesFrom(_, _, _, _, _)
TracesFrom(P, A, n, from, l) ==
    IF from >= l THEN <<>>
    ELSE <<Trace(P, n)>> \o TracesFrom(MatMul(P, A, n), A, n, from + 1, l)

\* powtrace with a converged eigensolver: traces[k-1] = tr(z^k), k = 1..l
powtrace(z, n, l) ==
    IF n = 0 THEN [i \in 0 .. l - 1 |-> Q(0)]
    ELSE LET A == EigenMap(z, n)
             t == TracesFrom(A, A, n, 0, l)
         IN  [i \in 0 .. l - 1 |-> Q(t[i + 1])]

\* traces from the eigenvalue vector vals itself: traces[i] = sum_j vals[j]^(i+1)
RECURSIVE IPow(_, _)
IPow(a, k) == IF k = 0 THEN 1 ELSE a * IPow(a, k - 1)

TracesOfVals(vals, n, l) ==
    [i \in 0 .. l - 1 |-> Q(ISum([j \in 0 .. n - 1 |-> IPow(vals[j], i + 1)], 0, n - 1))]

(* ---------------------- generating-function fold ---------------------- *)

\* powfactor after j rounds of powfactor = powfactor * factor / j
RECURSIVE PowFactor(_, _)
PowFactor(factor, j) ==
    IF j = 0 THEN Q(1) ELSE QDiv(QMul(PowFactor(factor, j - 1), factor), j)

\* one pass i of the fold: the row written, from the row read
FoldRow(old, factor, i, m) == Eager(
    [d \in 0 .. m |->
        QAdd(old[d],
             QSum([j \in 1 .. m \div i |->
                      IF i * j <= d
                      THEN QMul(old[d - i * j], PowFactor(factor, j))
                      ELSE Q(0)],
                  1, m \div i))])

CombInit(m) == [d \in 0 .. m |-> IF d = 0 THEN Q(1) ELSE Q(0)]

\* the sign test dropped: the coefficient is never negated
SignedNever(v, sum, n) == v

\* the sign test ((sum / 2) % 2) == (n / 2 % 2)
Signed(v, sum, n) ==
    IF ((sum \div 2) % 2) = ((n \div 2) % 2) THEN v ELSE QNeg(v)

\* do_chunk's fold: comb after passes from..m, starting from row `row`
RECURSIVE Fold(_, _, _, _)
Fold(row, traces, i, m) ==
    IF i > m THEN row
    ELSE Fold(FoldRow(row, QDiv(traces[i - 1], 2 * i), i, m), traces, i + 1, m)

\* the summand of one iteration x of do_chunk, given the traces of B
SummandOf(traces, sum, n) ==
    LET m == n \div 2
    IN  Signed(Fold(CombInit(m), traces, 1, m)[m], sum, n)

\* the whole body of one iteration of do_chunk's loop
Summand(mat, n, x) ==
    LET m   == n \div 2
        pos == PosOf(x, m)
        sum == SumOf(pos)
        B   == ReducedB(mat, n, pos)
    IN  SummandOf(powtrace(B, sum, m), sum, n)

(* --------------------------- loop-mode fold --------------------------- *)

\* tmpn: the inner product of C1 and D1
Correction(C1, D1, sum) == ISum([q \in 0 .. sum - 1 |-> C1[q] * D1[q]], 0, sum - 1)

\* tmp_c1: the row vector C1 times B, B row-major of side sum
AdvanceC1(C1, B, sum) ==
    Eager([q \in 0 .. sum - 1 |->
              ISum([j \in 0 .. sum - 1 |-> C1[j] * B[j * sum + q]], 0, sum - 1)])

\* factor = traces[i-1] / (2 i) + 0.5 * tmpn
LoopFactor(traces, i, tmpn) == QAdd(QDiv(traces[i - 1], 2 * i), QMul(<<1, 2>>, Q(tmpn)))

\* do_chunk_loops' passes i..m; st.row is the comb row last written, st.C1 the
\* advancing vector, st.corr the tmpn of every pass so far, st.c1s every C1 held
RECURSIVE LoopFold(_, _, _, _, _, _, _)
LoopFold(st, D1, B, traces, i, m, sum) ==
    IF i > m THEN st
    ELSE LET tmpn == Correction(st.C1, D1, sum)
             nC1  == AdvanceC1(st.C1, B, sum)
             nst  == [row  |-> FoldRow(st.row, LoopFactor(traces, i, tmpn), i, m),
                      C1   |-> nC1,
                      corr |-> Append(st.corr, tmpn),
                      c1s  |-> Append(st.c1s, nC1)]
         IN  LoopFold(nst, D1, B, traces, i + 1, m, sum)

\* C1[i] = C[pos[i]], D1[i] = D[pos[i]]
Gather(V, pos) == [i \in DOMAIN pos |-> V[pos[i]]]

\* one iteration of do_chunk_loops' loop, given the traces of B_powtrace:
\* the summand with the history of C1 and of the correction tmpn
LoopRun(mat, C, D, n, x, traces) ==
    LET m   == n \div 2
        pos == PosOf(x, m)
        sum == SumOf(pos)
        B   == ReducedB(mat, n, pos)
        C1  == Gather(C, pos)
        D1  == Gather(D, pos)
        st  == LoopFold([row |-> CombInit(m), C1 |-> C1, corr |-> <<>>, c1s |-> <<C1>>],
                        D1, B, traces, 1, m, sum)
    IN  [summand |-> Signed(st.row[m], sum, n), D1 |-> D1, corr |-> st.corr, c1s |-> st.c1s]

SummandLoops(mat, C, D, n, x) ==
    LET m   == n \div 2
        pos == PosOf(x, m)
    IN  LoopRun(mat, C, D, n, x, powtrace(ReducedB(mat, n, pos), SumOf(pos), m)).summand

\* D read from the sibling column instead of the diagonal
DiagOfSibling(mat, n) == [i \in 0 .. n - 1 |-> mat[i * n + Xor1(i)]]

\* loop_hafnian: D[i] = mat[i*n+i]
DiagOf(mat, n) == [i \in 0 .. n - 1 |-> mat[i * n + i]]

\* loop_hafnian: C[i] = D[i+1], C[i+1] = D[i] for even i
SwapSiblings(D, n) == [i \in 0 .. n - 1 |-> D[Xor1(i)]]

(* ------------------------------- inputs ------------------------------- *)

\* The matrices handed to the library: symmetric, of order N, row-major.
\* pat selects the off-diagonal entries, dg the diagonal.
OffDiag(pat, j, k) == IF pat = "ones" THEN 1 ELSE (1 + j + 2 * k) % 3

DiagEntry(dg, i) == IF dg = "zero" THEN 0 ELSE IF dg = "ones" THEN 1 ELSE 1 + (i % 3)

MatEntry(inp, r, c) ==
    IF r = c THEN DiagEntry(inp.dg, r)
    ELSE IF r > c THEN OffDiag(inp.pat, r, c) ELSE OffDiag(inp.pat, c, r)

MatOf(inp) == [q \in 0 .. inp.N * inp.N - 1 |-> MatEntry(inp, q \div inp.N, q % inp.N)]

Kinds == {<<"ones", "ones">>, <<"ones", "zero">>, <<"varied", "zero">>, <<"varied", "varied">>}

Inputs(orders) == {[N |-> N, pat |-> kd[1], dg |-> kd[2]] : N \in orders, kd \in Kinds}

EvenOrders == {2 * m : m \in 1 .. MaxM}
AllOrders  == 1 .. 2 * MaxM

(* ------------------------------- state -------------------------------- *)

VARIABLES
    pc,         \* "idle": nothing called; "run": inside the parallel loop; "done"
    call,       \* the call in progress: fn, inp, mat, n, X, chunksize, C, D, T
    status,     \* "none", "returned" (a value came back) or "aborted" (assert failed)
    result,     \* the value returned
    next,       \* the next loop index the work-sharing loop hands out
    thr,        \* the iterations the threads of the team are executing
    res,        \* the shared accumulator res
    lock,       \* index x whose iteration holds the critical section, -1 when free
    heap,       \* live allocations made by loop iterations: [x, name]
    processed,  \* how often each loop index has been executed to its end
    eigFailed,  \* TRUE once an eigensolver call has ended without converging
    stack,      \* hafnian_int's activation, then those of recursive_int, innermost last
    ret         \* <<v>>: the value v the activation popped last returned; <<>> once consumed

vars == <<pc, call, status, result, next, thr, res, lock, heap, processed, eigFailed,
          stack, ret>>

floatVars == <<next, thr, res, lock, heap, processed, eigFailed>>

NoCall == [fn |-> "none"]
NoRet  == <<>>
NoRun  == [summand |-> Q(0), D1 |-> <<>>, corr |-> <<>>, c1s |-> <<>>]

Init ==
    /\ pc = "idle"
    /\ call = NoCall
    /\ status = "none"
    /\ result = Q(0)
    /\ next = 0
    /\ thr = {}
    /\ res = Q(0)
    /\ lock = -1
    /\ heap = {}
    /\ processed = <<>>
    /\ eigFailed = FALSE
    /\ stack = <<>>
    /\ ret = NoRet

(* --------------------------- chunk workers ---------------------------- *)

LoopsFns == {"loop_hafnian", "do_chunk_loops"}

\* first index of the worker's loop: x = X in do_chunk, x = X * chunksize in do_chunk_loops
LoopFirst(fn, X, chunksize) == IF fn \in LoopsFns THEN X * chunksize ELSE X

\* bound of the worker's loop: x < X + chunksize, x < (X + 1) * chunksize
LoopEnd(fn, X, chunksize) == IF fn \in LoopsFns THEN (X + 1) * chunksize ELSE X + chunksize

\* what one iteration allocates: new[] arrays and std::vector objects
RawArrays == {"dst", "pos"}
Vectors(fn) ==
    IF fn \in LoopsFns THEN {"B", "B_powtrace", "C1", "D1", "traces", "comb"}
    ELSE {"B", "traces", "comb"}

Allocated(fn, x) == {[x |-> x, name |-> nm] : nm \in RawArrays \cup Vectors(fn)}

\* what the end of the iteration's scope releases: the std::vector objects
Released(fn, x) == {[x |-> x, name |-> nm] : nm \in Vectors(fn)}

\* entry of do_chunk / do_chunk_loops: res = 0.0, then the parallel loop
EnterWorker(fn, inp, n, X, chunksize, T) ==
    LET mat == MatOf(inp)
        D   == DiagOf(mat, n)
    IN  /\ call' = [fn |-> fn, inp |-> inp, mat |-> mat, n |-> n, X |-> X,
                    chunksize |-> chunksize, C |-> SwapSiblings(D, n), D |-> D, T |-> T]
        /\ pc' = "run"
        /\ res' = Q(0)
        /\ next' = LoopFirst(fn, X, chunksize)
        /\ thr' = {}
        /\ processed' = [x \in LoopFirst(fn, X, chunksize) ..
                                LoopEnd(fn, X, chunksize) - 1 |-> 0]
        /\ UNCHANGED <<status, result, lock, heap, eigFailed, stack, ret>>

\* a direct call of do_chunk with start index X and chunk size chunksize
CallDoChunk(inp, X, chunksize, T) ==
    EnterWorker("do_chunk", inp, inp.N, X, chunksize, T)

\* a direct call of do_chunk_loops
CallDoChunkLoops(inp, X, chunksize, T) ==
    EnterWorker("do_chunk_loops", inp, inp.N, X, chunksize, T)

\* assert(n % 2 == 0) fails: the process is aborted, no value is returned
AssertFails(fn, inp) ==
    /\ call' = [fn |-> fn, inp |-> inp, mat |-> MatOf(inp), n |-> inp.N]
    /\ pc' = "done"
    /\ status' = "aborted"
    /\ UNCHANGED <<result, next, thr, res, lock, heap, processed, eigFailed, stack, ret>>

\* hafnian: n = sqrt(mat.size()), assert, chunksize = 2^m, rank = 0
CallHafnian(inp, T) ==
    IF inp.N % 2 = 0
       THEN EnterWorker("hafnian", inp, inp.N, 0, Pow2(inp.N \div 2), T)
       ELSE AssertFails("hafnian", inp)

\* loop_hafnian: as hafnian, with D the diagonal and C its sibling swap
CallLoopHafnian(inp, T) ==
    IF inp.N % 2 = 0
       THEN EnterWorker("loop_hafnian", inp, inp.N, 0, Pow2(inp.N \div 2), T)
       ELSE AssertFails("loop_hafnian", inp)

\* the traces powtrace returns for iteration x when the eigensolver converges
TracesFor(x) ==
    LET m   == call.n \div 2
        pos == PosOf(x, m)
    IN  powtrace(ReducedB(call.mat, call.n, pos), SumOf(pos), m)

\* the body of one iteration up to its summand, from the traces it was given
RunIteration(x, traces) ==
    IF call.fn \in LoopsFns
    THEN LoopRun(call.mat, call.C, call.D, call.n, x, traces)
    ELSE [NoRun EXCEPT !.summand =
              SummandOf(traces, SumOf(PosOf(x, call.n \div 2)), call.n)]

\* a thread of the team takes the next index x, allocates its scratch and
\* computes summand
StartIteration(traces) ==
    /\ thr' = thr \cup {[st |-> "computed", x |-> next,
                         run |-> RunIteration(next, traces), tmp |-> Q(0)]}
    /\ heap' = heap \cup Allocated(call.fn, next)
    /\ next' = next + 1

BeginIteration ==
    /\ pc = "run"
    /\ Cardinality(thr) < call.T
    /\ next < LoopEnd(call.fn, call.X, call.chunksize)
    /\ StartIteration(TracesFor(next))
    /\ UNCHANGED <<pc, call, status, result, res, lock, processed, eigFailed, stack, ret>>

\* the critical section left out: res += summand unprotected
LockIgnored == TRUE

\* whether a thread may enter the critical section
LockFree == lock = -1

\* #pragma omp critical: enter, and load res
EnterCritical(it) ==
    /\ pc = "run"
    /\ it.st = "computed"
    /\ LockFree
    /\ lock' = it.x
    /\ thr' = (thr \ {it}) \cup {[it EXCEPT !.st = "loaded", !.tmp = res]}
    /\ UNCHANGED <<pc, call, status, result, next, res, heap, processed, eigFailed, stack, ret>>

\* res += summand: store, leave the critical section, end of the iteration's scope
LeaveCritical(it) ==
    /\ pc = "run"
    /\ it.st = "loaded"
    /\ res' = QAdd(it.tmp, it.run.summand)
    /\ lock' = -1
    /\ heap' = heap \ Released(call.fn, it.x)
    /\ processed' = [processed EXCEPT ![it.x] = @ + 1]
    /\ thr' = thr \ {it}
    /\ UNCHANGED <<pc, call, status, result, next, eigFailed, stack, ret>>

\* the implicit barrier at the end of the loop, then return res
Return ==
    /\ pc = "run"
    /\ next >= LoopEnd(call.fn, call.X, call.chunksize)
    /\ thr = {}
    /\ pc' = "done"
    /\ status' = "returned"
    /\ result' = res
    /\ UNCHANGED <<call, next, thr, res, lock, heap, processed, eigFailed, stack, ret>>

Threads == 1 .. MaxThreads

\* the calls a client can make
Hafnian == pc = "idle" /\ \E inp \in Inputs(AllOrders), T \in Threads : CallHafnian(inp, T)

LoopHafnian ==
    pc = "idle" /\ \E inp \in Inputs(AllOrders), T \in Threads : CallLoopHafnian(inp, T)

DoChunk ==
    pc = "idle" /\ \E inp \in Inputs(EvenOrders), X \in 0 .. MaxChunk, c \in 0 .. MaxChunk,
                      T \in Threads : CallDoChunk(inp, X, c, T)

DoChunkLoops ==
    pc = "idle" /\ \E inp \in Inputs(EvenOrders), X \in 0 .. MaxChunk, c \in 0 .. MaxChunk,
                      T \in Threads : CallDoChunkLoops(inp, X, c, T)

Next ==
    \/ Hafnian
    \/ LoopHafnian
    \/ DoChunk
    \/ DoChunkLoops
    \/ BeginIteration
    \/ \E it \in thr : EnterCritical(it)
    \/ \E it \in thr : LeaveCritical(it)
    \/ Return

Spec == Init /\ [][Next]_vars

(* ------------------- an eigensolver that may not converge -------------- *)

\* what the solver's eigenvalues() can hold when compute() did not converge
GarbageVals(sum) == {[j \in 0 .. sum - 1 |-> v] : v \in {0, 1}}

\* powtrace when ComplexEigenSolver ends with info() = NoConvergence: powtrace
\* does not look at info() and sums the powers of whatever eigenvalues() holds.
\* The model follows a call up to its first such failure.
BeginIterationNoConvergence ==
    /\ pc = "run"
    /\ Cardinality(thr) < call.T
    /\ next < LoopEnd(call.fn, call.X, call.chunksize)
    /\ ~eigFailed
    /\ LET sum == SumOf(PosOf(next, call.n \div 2))
       IN  /\ sum # 0
           /\ \E vals \in GarbageVals(sum) :
                  StartIteration(TracesOfVals(vals, sum, call.n \div 2))
    /\ eigFailed' = TRUE
    /\ UNCHANGED <<pc, call, status, result, res, lock, processed, stack, ret>>

NextEig == Next \/ BeginIterationNoConvergence

SpecEig == Init /\ [][NextEig]_vars

(* ----------------------- recursive integer engine ---------------------- *)

ZeroRow(n) == [u \in 0 .. n |-> 0]

\* arr[i]; outside the array the read is undefined: it is modelled as a row of
\* zeros, and C10_IndicesInBounds states that no such read happens
RowAt(arr, i, n) == IF i \in DOMAIN arr THEN arr[i] ELSE ZeroRow(n)

\* the pairs (j, k) of the loops  for (j = 1; j < lim; j++) for (k = 0; k < j; k++)
Pairs(lim) == {<<j, k>> : j \in 1 .. lim - 1, k \in 0 .. lim - 2} \cap
              {p \in (1 .. lim - 1) \X (0 .. lim - 2) : p[2] < p[1]}

\* value of the running counter i of recursive_int's first loop at pair (j, k)
Counter(j, k) == Cardinality({p \in Pairs(j + 1) : p[1] < j \/ p[2] < k})

\* the row one further down
ReduceIdxShifted(j, k) == ((j + 1) * (j + 2)) \div 2 + k + 3

\* row of b copied into c[i]: b[(j+1)*(j+2)/2+k+2]
ReduceIdx(j, k) == ((j + 1) * (j + 2)) \div 2 + k + 2

\* rows of b read for vertex j in step 4: b[(j+1)*(j+2)/2] and b[(j+1)*(j+2)/2+1]
EdgeIdx0(j) == ((j + 1) * (j + 2)) \div 2
EdgeIdx1(j) == ((j + 1) * (j + 2)) \div 2 + 1

\* cell of c written in step 4: c[j*(j-1)/2+k][u+v+1]
AugRow(j, k) == (j * (j - 1)) \div 2 + k
\* the column without v: every iteration of the loop over v writes one cell
AugColNoV(u, v) == u + 1

AugCol(u, v) == u + v + 1

\* number of rows of c: (s-2)*(s-3)/2, C++ division truncating towards zero
RowsOfC(s) == IF s = 2 THEN 0 ELSE ((s - 2) * (s - 3)) \div 2

\* recursive_int, first loop: c[i][u] = b[(j+1)*(j+2)/2+k+2][u]
ReduceC(b, s, n) ==
    Eager([i \in 0 .. RowsOfC(s) - 1 |->
              IF \E p \in Pairs(s - 2) : Counter(p[1], p[2]) = i
              THEN LET p == CHOOSE p \in Pairs(s - 2) : Counter(p[1], p[2]) = i
                   IN  RowAt(b, ReduceIdx(p[1], p[2]), n)
              ELSE ZeroRow(n)])

\* e = g; e[u+v+1] += g[u]*b[0][v] for u < n, v < n-u
AugmentG(g, b, n) ==
    Eager([d \in 0 .. n |->
              g[d] + ISum([u \in 0 .. n - 1 |->
                              IF d - u - 1 >= 0 /\ d - u - 1 < n - u
                              THEN g[u] * RowAt(b, 0, n)[d - u - 1] ELSE 0],
                          0, n - 1)])

\* the term step 4 adds to c[j*(j-1)/2+k][u+v+1]
AugTerm(b, j, k, u, v, n) ==
      RowAt(b, EdgeIdx0(j), n)[u] * RowAt(b, EdgeIdx1(k), n)[v]
    + RowAt(b, EdgeIdx0(k), n)[u] * RowAt(b, EdgeIdx1(j), n)[v]

\* the iterations (j, k, u, v) of step 4's loop nest
AugIters(s, n) == {<<p[1], p[2], u, v>> : p \in Pairs(s - 2), u \in 0 .. n - 1, v \in 0 .. n - 1}
                  \cap {q \in (1 .. s) \X (0 .. s) \X (0 .. n) \X (0 .. n) : q[4] < n - q[3]}

RECURSIVE SumTerms(_, _, _)
SumTerms(b, its, n) ==
    IF its = {} THEN 0
    ELSE LET q == CHOOSE q \in its : TRUE
         IN  AugTerm(b, q[1], q[2], q[3], q[4], n) + SumTerms(b, its \ {q}, n)

\* step 4 as a whole: every += of the loop nest applied to c
AugmentC(b, c, s, n) ==
    LET its == AugIters(s, n)
    IN  Eager([r \in DOMAIN c |->
                  [d \in 0 .. n |->
                      c[r][d] + SumTerms(b, {q \in its : AugRow(q[1], q[2]) = r
                                                        /\ AugCol(q[3], q[4]) = d}, n)]])

\* recursive_int run serially
RECURSIVE recursive_int(_, _, _, _, _)
recursive_int(b, s, w, g, n) ==
    IF s = 0 THEN w * g[n]
    ELSE LET c  == ReduceC(b, s, n)
             h  == recursive_int(c, s - 2, -w, g, n)
             e  == AugmentG(g, b, n)
             c2 == AugmentC(b, c, s, n)
         IN  h + recursive_int(c2, s - 2, w, e, n)

\* hafnian_int: n = sqrt(mat.size()) / 2, in int arithmetic
HalfOrder(N) == N \div 2

\* number of rows of z: n*(2*n-1)
RowsOfZ(n) == n * (2 * n - 1)

\* seeding: z[j*(j-1)/2+k][0] = mat[2*j*n + k]
SeedRow(j, k) == (j * (j - 1)) \div 2 + k
\* the index with stride n instead of 2n
SeedIndexHalfStride(j, k, n) == j * n + k

SeedIndex(j, k, n) == 2 * j * n + k

ZeroZ(n) == [i \in 0 .. RowsOfZ(n) - 1 |-> ZeroRow(n)]
InitG(n) == [u \in 0 .. n |-> IF u = 0 THEN 1 ELSE 0]

\* the seeding loop as a whole
SeedAll(mat, n) ==
    Eager([i \in 0 .. RowsOfZ(n) - 1 |->
              [u \in 0 .. n |->
                  IF u = 0 /\ \E p \in Pairs(2 * n) : SeedRow(p[1], p[2]) = i
                  THEN LET p == CHOOSE p \in Pairs(2 * n) : SeedRow(p[1], p[2]) = i
                       IN  mat[SeedIndex(p[1], p[2], n)]
                  ELSE 0]])

\* hafnian_int run serially
hafnian_int(mat, N) ==
    LET n == HalfOrder(N)
    IN  recursive_int(SeedAll(mat, n), 2 * n, 1, InitG(n), n)

Frame(b, s, w, g) ==
    [at |-> "enter", b |-> b, s |-> s, w |-> w, g |-> g, c |-> <<>>, e |-> <<>>,
     h |-> 0, j |-> 0, k |-> 0, u |-> 0]

Top == stack[Len(stack)]
SetTop(f) == [stack EXCEPT ![Len(stack)] = f]
Pop == SubSeq(stack, 1, Len(stack) - 1)

\* entry of hafnian_int: z and g allocated, g[0] = 1; no check of the order
CallHafnianInt(inp, T) ==
    LET n == HalfOrder(inp.N)
    IN  /\ call' = [fn |-> "hafnian_int", inp |-> inp, mat |-> MatOf(inp), n |-> n, T |-> T]
        /\ pc' = "run"
        /\ stack' = <<[at |-> "seed", z |-> ZeroZ(n), g |-> InitG(n)]>>
        /\ next' = 1
        /\ thr' = {}
        /\ UNCHANGED <<status, result, res, lock, heap, processed, eigFailed, ret>>

IntRunning == pc = "run" /\ call.fn = "hafnian_int"

\* the seeding loop, every iteration run to its end
Seed ==
    /\ IntRunning /\ Len(stack) = 1 /\ Top.at = "seed"
    /\ stack' = SetTop([Top EXCEPT !.at = "call", !.z = SeedAll(call.mat, call.n)])
    /\ UNCHANGED <<pc, call, status, result, ret>> /\ UNCHANGED floatVars

\* return recursive_int(z, 2*n, 1, g, n): the call
CallRecursive ==
    /\ IntRunning /\ Len(stack) = 1 /\ Top.at = "call"
    /\ stack' = <<[Top EXCEPT !.at = "wait"], Frame(Top.z, 2 * call.n, 1, Top.g)>>
    /\ UNCHANGED <<pc, call, status, result, ret>> /\ UNCHANGED floatVars

\* if (s == 0) return w*g[n]
BaseCase ==
    /\ IntRunning /\ Len(stack) > 1 /\ Top.at = "enter" /\ Top.s = 0
    /\ ret' = <<Top.w * Top.g[call.n]>>
    /\ stack' = Pop
    /\ UNCHANGED <<pc, call, status, result>> /\ UNCHANGED floatVars

\* c built from b, then h = recursive_int(c, s-2, -w, g, n): the call
Reduce ==
    /\ IntRunning /\ Len(stack) > 1 /\ Top.at = "enter" /\ Top.s # 0
    /\ LET c == ReduceC(Top.b, Top.s, call.n)
       IN  stack' = Append(SetTop([Top EXCEPT !.at = "after1", !.c = c]),
                           Frame(c, Top.s - 2, -Top.w, Top.g))
    /\ UNCHANGED <<pc, call, status, result, ret>> /\ UNCHANGED floatVars

\* h received; e = g augmented; step 4's loop nest entered
AfterFirst ==
    /\ IntRunning /\ Len(stack) > 1 /\ Top.at = "after1" /\ ret # NoRet
    /\ stack' = SetTop([Top EXCEPT !.h = ret[1],
                                   !.e = AugmentG(Top.g, Top.b, call.n),
                                   !.at = IF 1 < Top.s - 2 THEN "aug" ELSE "augdone",
                                   !.j = 1, !.k = 0, !.u = 0])
    /\ ret' = NoRet
    /\ next' = 0
    /\ UNCHANGED <<pc, call, status, result, thr, res, lock, heap, processed, eigFailed>>

\* step 4's loop nest, every iteration run to its end
Augment ==
    /\ IntRunning /\ Len(stack) > 1 /\ Top.at = "aug"
    /\ stack' = SetTop([Top EXCEPT !.at = "augdone",
                                   !.c = AugmentC(Top.b, Top.c, Top.s, call.n)])
    /\ UNCHANGED <<pc, call, status, result, ret>> /\ UNCHANGED floatVars

\* recursive_int(c, s-2, w, e, n): the call
CallSecond ==
    /\ IntRunning /\ Len(stack) > 1 /\ Top.at = "augdone"
    /\ stack' = Append(SetTop([Top EXCEPT !.at = "after2"]),
                       Frame(Top.c, Top.s - 2, Top.w, Top.e))
    /\ UNCHANGED <<pc, call, status, result, ret>> /\ UNCHANGED floatVars

\* return h + recursive_int(c, s-2, w, e, n)
AfterSecond ==
    /\ IntRunning /\ Len(stack) > 1 /\ Top.at = "after2" /\ ret # NoRet
    /\ ret' = <<Top.h + ret[1]>>
    /\ stack' = Pop
    /\ UNCHANGED <<pc, call, status, result>> /\ UNCHANGED floatVars

\* hafnian_int returns what recursive_int returned
ReturnInt ==
    /\ IntRunning /\ Len(stack) = 1 /\ Top.at = "wait" /\ ret # NoRet
    /\ result' = ret[1]
    /\ status' = "returned"
    /\ pc' = "done"
    /\ UNCHANGED <<call, stack, ret>> /\ UNCHANGED floatVars

HafnianInt == pc = "idle" /\ \E inp \in Inputs(AllOrders) : CallHafnianInt(inp, 1)

Recursion ==
    \/ CallRecursive
    \/ BaseCase
    \/ Reduce
    \/ AfterFirst
    \/ CallSecond
    \/ AfterSecond
    \/ ReturnInt

NextInt ==
    \/ HafnianInt
    \/ Seed
    \/ Augment
    \/ Recursion

SpecInt == Init /\ [][NextInt]_vars

(* ------------- hafnian_int with its parallel loops interleaved --------- *)

AtSeed == IntRunning /\ Len(stack) = 1 /\ Top.at = "seed"
AtAug  == IntRunning /\ Len(stack) > 1 /\ Top.at = "aug"

\* arr with arr[row][col] = v; a write outside the array is undefined and
\* modelled as no write, C10_IndicesInBounds stating that none happens
Store(arr, row, col, v) ==
    IF row \in DOMAIN arr /\ col \in DOMAIN arr[row]
    THEN [arr EXCEPT ![row][col] = v] ELSE arr

\* a thread of the team takes iteration j of the seeding loop
SeedBegin ==
    /\ AtSeed
    /\ Cardinality(thr) < call.T
    /\ next < 2 * call.n
    /\ thr' = thr \cup {[j |-> next, k |-> 0]}
    /\ next' = next + 1
    /\ UNCHANGED <<pc, call, status, result, res, lock, heap, processed, eigFailed,
                   stack, ret>>

\* z[j*(j-1)/2+k][0] = mat[2*j*n + k], then k++; the iteration ends at k = j
SeedWrite(it) ==
    /\ AtSeed
    /\ stack' = SetTop([Top EXCEPT !.z = Store(Top.z, SeedRow(it.j, it.k), 0,
                                               call.mat[SeedIndex(it.j, it.k, call.n)])])
    /\ thr' = (thr \ {it}) \cup (IF it.k + 1 < it.j THEN {[it EXCEPT !.k = @ + 1]} ELSE {})
    /\ UNCHANGED <<pc, call, status, result, next, res, lock, heap, processed, eigFailed,
                   ret>>

\* the implicit barrier at the end of the seeding loop
SeedEnd ==
    /\ AtSeed
    /\ next >= 2 * call.n
    /\ thr = {}
    /\ stack' = SetTop([Top EXCEPT !.at = "call"])
    /\ UNCHANGED <<pc, call, status, result, ret>> /\ UNCHANGED floatVars

\* a thread takes iteration v of the loop over v and loads the operands of
\* c[j*(j-1)/2+k][u+v+1] += ...
AugLoad ==
    /\ AtAug
    /\ Cardinality(thr) < call.T
    /\ next < call.n - Top.u
    /\ thr' = thr \cup
              {[v |-> next,
                tmp |-> RowAt(Top.c, AugRow(Top.j, Top.k), call.n)[AugCol(Top.u, next)]
                        + AugTerm(Top.b, Top.j, Top.k, Top.u, next, call.n)]}
    /\ next' = next + 1
    /\ UNCHANGED <<pc, call, status, result, res, lock, heap, processed, eigFailed,
                   stack, ret>>

\* the store of the += and the end of iteration v
AugStore(it) ==
    /\ AtAug
    /\ stack' = SetTop([Top EXCEPT !.c = Store(Top.c, AugRow(Top.j, Top.k),
                                               AugCol(Top.u, it.v), it.tmp)])
    /\ thr' = thr \ {it}
    /\ UNCHANGED <<pc, call, status, result, next, res, lock, heap, processed, eigFailed,
                   ret>>

\* the implicit barrier at the end of the loop over v, then u++, k++, j++
AugNextRegion ==
    /\ AtAug
    /\ next >= call.n - Top.u
    /\ thr = {}
    /\ stack' = SetTop(
          IF Top.u + 1 < call.n THEN [Top EXCEPT !.u = @ + 1]
          ELSE IF Top.k + 1 < Top.j THEN [Top EXCEPT !.k = @ + 1, !.u = 0]
          ELSE IF Top.j + 1 < Top.s - 2 THEN [Top EXCEPT !.j = @ + 1, !.k = 0, !.u = 0]
          ELSE [Top EXCEPT !.at = "augdone"])
    /\ next' = 0
    /\ UNCHANGED <<pc, call, status, result, thr, res, lock, heap, processed, eigFailed,
                   ret>>

HafnianIntPar ==
    pc = "idle" /\ \E inp \in Inputs(AllOrders), T \in Threads : CallHafnianInt(inp, T)

NextIntPar ==
    \/ HafnianIntPar
    \/ SeedBegin
    \/ \E it \in thr : SeedWrite(it)
    \/ SeedEnd
    \/ AugLoad
    \/ \E it \in thr : AugStore(it)
    \/ AugNextRegion
    \/ Recursion

SpecIntPar == Init /\ [][NextIntPar]_vars

(* ------------------------------- claims ------------------------------- *)

Drivers == {"hafnian", "loop_hafnian"}

Returned == pc = "done" /\ status = "returned"

\* summand of iteration x of the call in progress, eigensolver converging
IterSummand(x) == RunIteration(x, TracesFor(x)).summand

SumOver(lo, hi) == QSum([x \in lo .. hi |-> IterSummand(x)], lo, hi)

RECURSIVE Fact(_)
Fact(k) == IF k = 0 THEN 1 ELSE k * Fact(k - 1)

\* (2m)! / (2^m m!), the number of perfect matchings of K_2m
Matchings(m) == Fact(2 * m) \div (Pow2(m) * Fact(m))

IsAllOnes(inp) == inp.pat = "ones" /\ inp.dg = "ones"

\* C3: hafnian of the all-ones matrix of order 2m returns (2m)! / (2^m m!)
C3_HafnianOfOnes ==
    (Returned /\ call.fn = "hafnian" /\ IsAllOnes(call.inp))
        => result = Q(Matchings(call.n \div 2))

C3_Witness ==
    /\ Returned /\ call.fn = "hafnian" /\ IsAllOnes(call.inp)
    /\ call.n = 2 * MaxM
    /\ result = Q(Matchings(MaxM))

\* C4: in hafnian and loop_hafnian no two iterations in flight share an index,
\* every index of [0, 2^m) is executed exactly once, and the value returned is
\* the sum of the summands of all indices, whatever the team size and interleaving
C4_ReductionExact ==
    call.fn \in Drivers =>
        /\ \A i1, i2 \in thr : i1.x = i2.x => i1 = i2
        /\ Returned =>
              /\ DOMAIN processed = 0 .. Pow2(call.n \div 2) - 1
              /\ \A x \in DOMAIN processed : processed[x] = 1
              /\ result = SumOver(0, Pow2(call.n \div 2) - 1)

C4_Witness ==
    /\ Returned /\ call.fn \in Drivers
    /\ call.T = MaxThreads /\ call.n = 2 * MaxM
    /\ result # Q(0)

IsZeroVector(v) == \A i \in DOMAIN v : v[i] = 0

\* C6: with a zero diagonal every iteration of the loop-mode worker keeps C1 and
\* D1 zero and its correction tmpn zero in every pass, its summand is do_chunk's
\* summand, and loop_hafnian returns what hafnian returns
C6_LoopEqualsHafnian ==
    (call.fn \in LoopsFns /\ call.inp.dg = "zero") =>
        /\ \A it \in thr :
              /\ IsZeroVector(it.run.D1)
              /\ \A p \in DOMAIN it.run.c1s : IsZeroVector(it.run.c1s[p])
              /\ \A p \in DOMAIN it.run.corr : it.run.corr[p] = 0
              /\ it.run.summand = Summand(call.mat, call.n, it.x)
        /\ (Returned /\ call.fn = "loop_hafnian") =>
              result = QSum([x \in 0 .. Pow2(call.n \div 2) - 1 |->
                                Summand(call.mat, call.n, x)],
                            0, Pow2(call.n \div 2) - 1)

C6_Witness ==
    /\ call.fn = "loop_hafnian" /\ call.inp.dg = "zero" /\ call.n = 2 * MaxM
    /\ \E it \in thr :
          /\ Len(it.run.corr) = MaxM
          /\ DOMAIN it.run.D1 = 0 .. call.n - 1
          /\ it.run.summand # Q(0)

\* C7: a failure of the eigensolver to converge makes the call fail
C7_EigenFailureReported == (pc = "done" /\ eigFailed) => status = "failed"

\* C8: a chunk worker called with X and chunksize executes exactly the indices
\* X .. X+chunksize-1 and returns the sum of their summands
C8_ChunkRange ==
    (Returned /\ call.fn \in {"do_chunk", "do_chunk_loops"}) =>
        /\ DOMAIN processed = call.X .. call.X + call.chunksize - 1
        /\ \A x \in DOMAIN processed : processed[x] = 1
        /\ result = SumOver(call.X, call.X + call.chunksize - 1)

\* C9: no allocation made by an iteration outlives that iteration
C9_ScratchReleased == \A a \in heap : \E it \in thr : it.x = a.x

\* C1: an input of odd order makes each driver fail at entry, returning nothing
C1_OddOrderRejected ==
    (pc = "done" /\ call.fn \in {"hafnian", "loop_hafnian", "hafnian_int"}
                 /\ call.inp.N % 2 = 1)
        => status = "aborted"

\* sum over the perfect matchings of the vertex set V of the products of A[i,j]
RECURSIVE MatchingSum(_, _)
RECURSIVE MatchingSumWith(_, _, _, _)
MatchingSumWith(inp, a, partners, V) ==
    IF partners = {} THEN 0
    ELSE LET b == CHOOSE b \in partners : TRUE
         IN  MatEntry(inp, a, b) * MatchingSum(inp, V \ {a, b})
             + MatchingSumWith(inp, a, partners \ {b}, V)

MatchingSum(inp, V) ==
    IF V = {} THEN 1
    ELSE LET a == CHOOSE a \in V : \A b \in V : a <= b
         IN  MatchingSumWith(inp, a, V \ {a}, V)

IntCall == call.fn = "hafnian_int"

\* C2: for a matrix of even order N the seeding reads exactly the entries
\* A[j,k], j > k, of the row-major matrix into z[j(j-1)/2+k][0], and hafnian_int
\* returns the sum over the perfect matchings (1, 3, 15 for all-ones matrices)
C2_HafnianIntIsMatchingSum ==
    (IntCall /\ call.inp.N % 2 = 0) =>
        /\ \A p \in Pairs(call.inp.N) :
              /\ SeedIndex(p[1], p[2], call.n) = p[1] * call.inp.N + p[2]
              /\ stack[1].at # "seed" =>
                    stack[1].z[SeedRow(p[1], p[2])][0] = MatEntry(call.inp, p[1], p[2])
        /\ Returned =>
              /\ result = MatchingSum(call.inp, 0 .. call.inp.N - 1)
              /\ IsAllOnes(call.inp) => result = Matchings(call.n)

C2_Witness ==
    /\ Returned /\ IntCall
    /\ call.inp.N = 2 * MaxM /\ call.inp.pat = "varied"
    /\ result > 1

\* two iterations of a parallel loop never both write a cell, and none reads a
\* cell another writes
RaceFree(W, R) ==
    \A i1, i2 \in DOMAIN W : i1 # i2 => (W[i1] \cap W[i2] = {} /\ R[i1] \cap W[i2] = {})

\* the cells iteration j of the seeding loop writes, and those it reads
SeedWrites(j) == {<<"z", SeedRow(j, k), 0>> : k \in 0 .. j - 1}
SeedReads(j)  == {<<"mat", SeedIndex(j, k, call.n), 0>> : k \in 0 .. j - 1}

\* the cell iteration v of the loop over v writes, and the cells it reads

AugWrites(v) == {<<"c", AugRow(Top.j, Top.k), AugCol(Top.u, v)>>}
AugReads(v)  == {<<"c", AugRow(Top.j, Top.k), AugCol(Top.u, v)>>,
                 <<"b", EdgeIdx0(Top.j), Top.u>>, <<"b", EdgeIdx1(Top.k), v>>,
                 <<"b", EdgeIdx0(Top.k), Top.u>>, <<"b", EdgeIdx1(Top.j), v>>}

\* C5: the iterations of hafnian_int's seeding loop and of recursive_int's loop
\* over v are free of races, and under every team size and interleaving
\* hafnian_int returns what its serial run returns
C5_IntDeterministic ==
    /\ AtSeed => RaceFree([j \in 1 .. 2 * call.n - 1 |-> SeedWrites(j)],
                          [j \in 1 .. 2 * call.n - 1 |-> SeedReads(j)])
    /\ AtAug => RaceFree([v \in 0 .. call.n - Top.u - 1 |-> AugWrites(v)],
                         [v \in 0 .. call.n - Top.u - 1 |-> AugReads(v)])
    /\ (Returned /\ IntCall) => result = hafnian_int(call.mat, call.inp.N)

C5_Witness ==
    /\ AtAug /\ Top.s = 2 * MaxM
    /\ Cardinality(thr) = MaxThreads

IsRows(arr, rows, n) ==
    /\ DOMAIN arr = 0 .. rows - 1
    /\ \A i \in DOMAIN arr : DOMAIN arr[i] = 0 .. n

FrameInBounds(f, n) ==
    /\ f.s % 2 = 0 /\ 0 <= f.s /\ f.s <= 2 * n
    /\ f.w \in {1, -1}
    /\ IsRows(f.b, (f.s * (f.s - 1)) \div 2, n)
    /\ DOMAIN f.g = 0 .. n
    /\ f.s # 0 =>
          /\ 0 \in DOMAIN f.b
          /\ \A p \in Pairs(f.s - 2) :
                /\ ReduceIdx(p[1], p[2]) \in DOMAIN f.b
                /\ Counter(p[1], p[2]) \in 0 .. RowsOfC(f.s) - 1
                /\ AugRow(p[1], p[2]) \in 0 .. RowsOfC(f.s) - 1
                /\ {EdgeIdx0(p[1]), EdgeIdx1(p[1]), EdgeIdx0(p[2]), EdgeIdx1(p[2])}
                       \subseteq DOMAIN f.b
          /\ \A u \in 0 .. n - 1 : \A v \in 0 .. n - u - 1 : AugCol(u, v) \in 0 .. n

\* C10: in every activation of recursive_int under hafnian_int, s is even with
\* 0 <= s <= 2n, w is +1 or -1, b has s(s-1)/2 rows of length n+1, and every
\* index used on b, g, c and e lies within its array
C10_IndicesInBounds ==
    IntCall =>
        /\ Len(stack) >= 1 => IsRows(stack[1].z, RowsOfZ(call.n), call.n)
        /\ \A d \in 2 .. Len(stack) : FrameInBounds(stack[d], call.n)

C10_Witness ==
    /\ IntCall /\ call.n = MaxM
    /\ Len(stack) = MaxM + 2
    /\ Top.s = 0 /\ Top.w = -1

====
